---------------------------- MODULE Spec2Model ----------------------------
(***************************************************************************)
(* A model of enumticket's PageLayout (src/ticket.py): the grid            *)
(* computation of set_margins / set_pagesize, the number assignment of     *)
(* generate_numbers, the label feed get_label and the paint loop of        *)
(* generate.                                                               *)
(*                                                                         *)
(* Lengths are integers (one unit stands for any fixed length unit).       *)
(* Label strings are coded by positive integers, 0 codes the empty string. *)
(* Python lists are sequences; a Python index i is the TLA+ index i+1.     *)
(* A raised exception is recorded in err; the object keeps the             *)
(* assignments made before the raise, as a caller that catches sees them.  *)
(***************************************************************************)
EXTENDS Integers, Sequences, FiniteSets, TLC

(* ----------------------------- bounds ---------------------------------- *)
MaxTickets == 3
MaxOffset == 1
MaxLabels == 2
MaxRuns == 2
MaxResizes == 1

(* ------------------------ program constants ---------------------------- *)
STACKORDER == 1
SEQUENTIALORDER == 2
RANDOMORDER == 4

(* Python's None, as the value of an attribute that was never assigned.    *)
None == "None"
(* pagesize = None: the empty tuple stands for it among the page sizes.    *)
NoPagesize == << >>

Margins(bottom, left, top, right) ==
  [bottom |-> bottom, left |-> left, top |-> top, right |-> right]

(* ------------------------------ inputs --------------------------------- *)
(* Ticket(width, height)                                                   *)
TicketSizes == { <<2, 2>> }
GridTicketSizes == { <<2, 2>>, <<3, 2>> }
(* pagesize = (width, height)                                              *)
Pagesizes == { <<5, 5>>, <<5, 3>> }
(* cropmarks = (length, stroke width)                                      *)
CropmarkChoices == { <<0, 1>>, <<1, 1>> }
(* requested margins: none; wider and higher than the page;                *)
(* and, for the grid alone, a left margin, and margins wider than the page *)
MarginChoices == { Margins(0, 0, 0, 0), Margins(4, 4, 4, 4) }
GridMarginChoices ==
  MarginChoices \cup { Margins(0, 1, 0, 0), Margins(0, 4, 0, 4), Margins(4, 4, 5, 5) }
(* an order argument: the three policies and a value that is none of them  *)
OrderValues == { STACKORDER, SEQUENTIALORDER, RANDOMORDER, 3 }
(* a list of n different labels                                            *)
LabelList(n) == [i \in 1..n |-> i]

VARIABLES
  alive,                \* the constructor returned an object
  ticket,               \* self.ticket: width, height, number, label, x, y
  numtickets, numoffset, cropmarks,
  pagesize, minmargins,
  colcount, rowcount, tickets_per_page, ticket_on_last_page, numpages,
  realmargins,
  numbers,              \* self.numbers: the pages of the assignment
  labels,               \* self.labels
  canvas,               \* what the latest generate call drew on its canvas
  err,                  \* the exception the latest call raised, or "none"
  call,                 \* the latest call: its name, its arguments, the
                        \* shuffle it drew and the lists as it found them
  runs,                 \* generate / generate_numbers calls made so far
  resizes               \* set_margins / set_pagesize calls made so far

geometry ==
  <<colcount, rowcount, tickets_per_page, ticket_on_last_page, numpages,
    minmargins, realmargins>>
config == <<alive, numtickets, numoffset, cropmarks>>
vars ==
  <<alive, ticket, numtickets, numoffset, cropmarks, pagesize, minmargins,
    colcount, rowcount, tickets_per_page, ticket_on_last_page, numpages,
    realmargins, numbers, labels, canvas, err, call, runs, resizes>>

(* ------------------------- Python arithmetic --------------------------- *)
Abs(a) == IF a < 0 THEN -a ELSE a

(* int(a / b): the quotient truncated toward zero                          *)
IntDiv(a, b) ==
  IF (a < 0) = (b < 0) THEN Abs(a) \div Abs(b) ELSE -(Abs(a) \div Abs(b))

(* a % b: the remainder has the sign of b                                  *)
PyMod(a, b) == IF b > 0 THEN a % b ELSE -((-a) % (-b))

(* math.ceil(a / b)                                                        *)
CeilDiv(a, b) == IF b > 0 THEN -((-a) \div b) ELSE -(a \div (-b))

(* ------------------------------ the grid ------------------------------- *)
usable_pagewidth(ps, crop, m) == ps[1] - 2 * crop[1] - m.left - m.right
usable_pageheight(ps, crop, m) == ps[2] - 2 * crop[1] - m.bottom - m.top

(* lines 403-407: the real margins around colcount x rowcount tickets      *)
RealMargins(ps, crop, m, tk, cc, rc) ==
  LET left == m.left + crop[1]
      right == left + cc * tk.width
      top == m.top + crop[1]
      bottom == top + rc * tk.height
  IN  Margins(ps[2] - bottom, left, top, ps[1] - right)

(* set_margins past its pagesize check, lines 395-407.  The modulo of line *)
(* 400 raises ZeroDivisionError when tickets_per_page is 0: the attributes *)
(* of lines 400-407 are then not assigned (raised = TRUE).                 *)
ComputeGrid(ps, crop, tk, n, m) ==
  LET uw == usable_pagewidth(ps, crop, m)
      uh == usable_pageheight(ps, crop, m)
      cc == IntDiv(uw, tk.width)
      rc == IntDiv(uh, tk.height)
      tpp == cc * rc
  IN  IF tpp = 0
        THEN [raised |-> TRUE, colcount |-> cc, rowcount |-> rc,
              tickets_per_page |-> tpp]
        ELSE [raised |-> FALSE, colcount |-> cc, rowcount |-> rc,
              tickets_per_page |-> tpp,
              ticket_on_last_page |-> PyMod(n, tpp),
              numpages |-> CeilDiv(n, tpp),
              minmargins |-> m,
              realmargins |-> RealMargins(ps, crop, m, tk, cc, rc)]

NoCall ==
  [name |-> "__init__", order |-> 0, invert |-> FALSE, cropmarks |-> FALSE,
   shuffled |-> << >>, numbers |-> << >>, labels |-> << >>,
   minmargins |-> Margins(0, 0, 0, 0)]

(* PageLayout(Ticket(sz), n, numoffset=off, pagesize=ps, cropmarks=crop,   *)
(* bottom.., labels=lbls): __init__, lines 364-383, on a new Ticket (lines *)
(* 295-302).  An exception of set_margins (line 379) leaves the            *)
(* constructor: no object exists, alive = FALSE.                           *)
Construct(sz, ps, crop, m, n, off, lbls) ==
  LET tk == [width |-> sz[1], height |-> sz[2], number |-> 0, label |-> 0,
             x |-> 0, y |-> 0]
      g == ComputeGrid(ps, crop, tk, n, m)
  IN  /\ ticket = tk
      /\ numtickets = n
      /\ numoffset = off
      /\ cropmarks = crop
      /\ pagesize = ps
      /\ colcount = g.colcount
      /\ rowcount = g.rowcount
      /\ tickets_per_page = g.tickets_per_page
      /\ alive = ~g.raised
      /\ err = IF g.raised THEN "ZeroDivisionError" ELSE "none"
      /\ ticket_on_last_page = IF g.raised THEN None ELSE g.ticket_on_last_page
      /\ numpages = IF g.raised THEN None ELSE g.numpages
      /\ minmargins = IF g.raised THEN None ELSE g.minmargins
      /\ realmargins = IF g.raised THEN None ELSE g.realmargins
      /\ numbers = << >>
      /\ labels = IF g.raised THEN << >> ELSE lbls
      /\ canvas = << >>
      /\ call = [NoCall EXCEPT !.minmargins = m]
      /\ runs = 0
      /\ resizes = 0

Init ==
  \E sz \in TicketSizes, ps \in Pagesizes, crop \in CropmarkChoices,
     m \in MarginChoices, n \in 0..MaxTickets, off \in 0..MaxOffset :
    Construct(sz, ps, crop, m, n, off, LabelList(MaxLabels))

InitGrid ==
  \E sz \in GridTicketSizes, ps \in Pagesizes, crop \in CropmarkChoices,
     m \in GridMarginChoices, n \in 0..MaxTickets, off \in 0..MaxOffset :
    Construct(sz, ps, crop, m, n, off, LabelList(MaxLabels))

(* The body of set_margins(m) with self.pagesize = ps, lines 393-407.      *)
Recompute(ps, m) ==
  IF ps = NoPagesize
    THEN /\ err' = "none"
         /\ UNCHANGED geometry
    ELSE LET g == ComputeGrid(ps, cropmarks, ticket, numtickets, m)
         IN  /\ colcount' = g.colcount
             /\ rowcount' = g.rowcount
             /\ tickets_per_page' = g.tickets_per_page
             /\ IF g.raised
                  THEN /\ err' = "ZeroDivisionError"
                       /\ UNCHANGED <<ticket_on_last_page, numpages,
                                      minmargins, realmargins>>
                  ELSE /\ err' = "none"
                       /\ ticket_on_last_page' = g.ticket_on_last_page
                       /\ numpages' = g.numpages
                       /\ minmargins' = g.minmargins
                       /\ realmargins' = g.realmargins

set_margins(m) ==
  /\ alive
  /\ resizes < MaxResizes
  /\ resizes' = resizes + 1
  /\ Recompute(pagesize, m)
  /\ call' = [NoCall EXCEPT !.name = "set_margins", !.minmargins = m]
  /\ UNCHANGED <<config, ticket, pagesize, numbers, labels, canvas, runs>>

set_pagesize(ps) ==
  /\ alive
  /\ resizes < MaxResizes
  /\ resizes' = resizes + 1
  /\ pagesize' = ps
  /\ Recompute(ps, minmargins)
  /\ call' = [NoCall EXCEPT !.name = "set_pagesize", !.minmargins = minmargins]
  /\ UNCHANGED <<config, ticket, numbers, labels, canvas, runs>>

(* --------------------------- generate_numbers -------------------------- *)
Reverse(s) == [i \in 1..Len(s) |-> s[Len(s) + 1 - i]]

(* every ordering random.shuffle can leave the list in                     *)
Shuffles(s) ==
  { [i \in 1..Len(s) |-> s[p[i]]] :
      p \in { q \in [1..Len(s) -> 1..Len(s)] :
                \A i, j \in 1..Len(s) : q[i] = q[j] => i = j } }

(* range(self.numoffset, self.numtickets + self.numoffset)                 *)
IdRangeShort(off, n) == [i \in 1..(n - 1) |-> off + i - 1]
IdRange(off, n) == [i \in 1..n |-> off + i - 1]

(* lines 472-473: one empty page more per page of the layout               *)
AppendPages(nums, np) == nums \o [i \in 1..np |-> << >>]

(* self.numbers[cp].append(i), cp a Python index                           *)
AppendTo(nums, cp, i) == [nums EXCEPT ![cp + 1] = Append(@, i)]

Result(nums, e) == [numbers |-> nums, err |-> e]

(* The loop of lines 476-481, and of lines 485-490 on the popped numbers:  *)
(* ids are the identifiers still to place, cp is currentpage.  An index    *)
(* past the end of self.numbers raises IndexError.                         *)
RECURSIVE FillPages(_, _, _, _)
FillPages(nums, cp, ids, tpp) ==
  IF ids = << >> THEN Result(nums, "none")
  ELSE IF cp >= Len(nums) THEN Result(nums, "IndexError")
  ELSE IF Len(nums[cp + 1]) < tpp
    THEN FillPages(AppendTo(nums, cp, Head(ids)), cp, Tail(ids), tpp)
  ELSE IF cp + 1 >= Len(nums) THEN Result(nums, "IndexError")
  ELSE FillPages(AppendTo(nums, cp + 1, Head(ids)), cp + 1, Tail(ids), tpp)

(* The loop of lines 492-497.                                              *)
RECURSIVE StackPages(_, _, _, _)
StackPages(nums, cp, ids, np) ==
  IF ids = << >> THEN Result(nums, "none")
  ELSE IF cp >= Len(nums) THEN Result(nums, "IndexError")
  ELSE StackPages(AppendTo(nums, cp, Head(ids)),
                  IF cp < np - 1 THEN cp + 1 ELSE 0, Tail(ids), np)

(* lines 498-499: self.numbers.reverse()                                   *)
InvertPagesDeep(nums, invert) ==
  IF invert THEN Reverse([i \in 1..Len(nums) |-> Reverse(nums[i])]) ELSE nums
InvertPages(nums, invert) == IF invert THEN Reverse(nums) ELSE nums

(* generate_numbers(order, invert) on self.numbers = nums, lines 471-499;  *)
(* shuffled is the list random.shuffle left (line 484), popped from its    *)
(* end (lines 487, 490).                                                   *)
GenerateNumbers(nums, order, invert, shuffled) ==
  LET paged == AppendPages(nums, numpages)
      filled ==
        CASE order = SEQUENTIALORDER ->
               FillPages(paged, 0, IdRange(numoffset, numtickets), tickets_per_page)
          [] order = RANDOMORDER ->
               FillPages(paged, 0, Reverse(shuffled), tickets_per_page)
          [] order = STACKORDER ->
               StackPages(paged, 0, IdRange(numoffset, numtickets), numpages)
          [] OTHER -> Result(paged, "none")
  IN  IF filled.err = "none"
        THEN Result(InvertPages(filled.numbers, invert), "none")
        ELSE filled

ShuffleChoices(order) ==
  IF order = RANDOMORDER THEN Shuffles(IdRange(numoffset, numtickets))
  ELSE { << >> }

generate_numbers(order, invert) ==
  /\ alive
  /\ runs < MaxRuns
  /\ \E shuffled \in ShuffleChoices(order) :
       LET r == GenerateNumbers(numbers, order, invert, shuffled)
       IN  /\ numbers' = r.numbers
           /\ err' = r.err
           /\ call' = [NoCall EXCEPT !.name = "generate_numbers",
                         !.order = order, !.invert = invert,
                         !.shuffled = shuffled, !.numbers = numbers,
                         !.labels = labels, !.minmargins = minmargins]
  /\ runs' = runs + 1
  /\ UNCHANGED <<config, ticket, pagesize, geometry, labels, canvas, resizes>>

(* ------------------------------ generate ------------------------------- *)
(* get_cell(col, row), lines 463-469                                       *)
get_cell_row_off(col, row) ==
  << realmargins.left + col * ticket.width,
     pagesize[2] - realmargins.top - row * ticket.height >>
get_cell(col, row) ==
  << realmargins.left + col * ticket.width,
     pagesize[2] - realmargins.top - (row + 1) * ticket.height >>

(* get_label, lines 501-505: pop from the end, "" when the list is empty   *)
get_label_front(lbls) ==
  IF lbls = << >> THEN [label |-> 0, labels |-> lbls]
  ELSE [label |-> Head(lbls), labels |-> Tail(lbls)]
get_label(lbls) ==
  IF lbls = << >> THEN [label |-> 0, labels |-> lbls]
  ELSE [label |-> lbls[Len(lbls)], labels |-> SubSeq(lbls, 1, Len(lbls) - 1)]

CropEvent == [kind |-> "cropmarks"]
PageEvent == [kind |-> "showPage"]
PaintEvent(tk) ==
  [kind |-> "paint", number |-> tk.number, label |-> tk.label,
   x |-> tk.x, y |-> tk.y]

Painted(tk, lbls, cv, e) == [ticket |-> tk, labels |-> lbls, canvas |-> cv, err |-> e]

(* paint_cropmarks, lines 435-461, reads self.pagesize at the first column *)
(* (line 445) or the first row (line 455): TypeError when it is None.      *)
CropmarksRaise == pagesize = NoPagesize /\ (colcount >= 1 \/ rowcount >= 1)

(* the column and row the loop of lines 546-550 moves to                   *)
NextCol(col) == IF col < colcount - 1 THEN col + 1 ELSE 0
NextRow(col, row) == IF col < colcount - 1 THEN row ELSE row + 1

(* The loop of lines 540-550 over the rest of one page.                    *)
RECURSIVE PaintNumbers(_, _, _, _, _, _)
PaintNumbers(page, col, row, tk, lbls, cv) ==
  IF page = << >> THEN Painted(tk, lbls, cv, "none")
  ELSE LET l == get_label(lbls)
           t1 == [tk EXCEPT !.number = Head(page), !.label = l.label]
       IN  IF pagesize = NoPagesize
             THEN Painted(t1, l.labels, cv, "TypeError")
             ELSE LET xy == get_cell(col, row)
                      t2 == [t1 EXCEPT !.x = xy[1], !.y = xy[2]]
                  IN  PaintNumbers(Tail(page), NextCol(col), NextRow(col, row),
                                   t2, l.labels, Append(cv, PaintEvent(t2)))

(* The loop of lines 535-551 over the rest of the pages.                   *)
RECURSIVE PaintPages(_, _, _, _, _)
PaintPages(pages, cropflag, tk, lbls, cv) ==
  IF pages = << >> THEN Painted(tk, lbls, cv, "none")
  ELSE LET cv1 == IF cropflag THEN Append(cv, CropEvent) ELSE cv
       IN  IF cropflag /\ CropmarksRaise
             THEN Painted(tk, lbls, cv1, "TypeError")
             ELSE LET p == PaintNumbers(Head(pages), 0, 0, tk, lbls, cv1)
                  IN  IF p.err # "none" THEN p
                      ELSE PaintPages(Tail(pages), cropflag, p.ticket, p.labels,
                                      Append(p.canvas, PageEvent))

(* generate(canvas, order, cropmarks, invert) on a new canvas, 534-551     *)
generate(order, cropflag, invert) ==
  /\ alive
  /\ runs < MaxRuns
  /\ \E shuffled \in ShuffleChoices(order) :
       LET r == GenerateNumbers(numbers, order, invert, shuffled)
           p == IF r.err = "none"
                  THEN PaintPages(r.numbers, cropflag, ticket, labels, << >>)
                  ELSE Painted(ticket, labels, << >>, r.err)
       IN  /\ numbers' = r.numbers
           /\ ticket' = p.ticket
           /\ labels' = p.labels
           /\ canvas' = p.canvas
           /\ err' = p.err
           /\ call' = [NoCall EXCEPT !.name = "generate",
                         !.order = order, !.invert = invert,
                         !.cropmarks = cropflag,
                         !.shuffled = shuffled, !.numbers = numbers,
                         !.labels = labels, !.minmargins = minmargins]
  /\ runs' = runs + 1
  /\ UNCHANGED <<config, pagesize, geometry, resizes>>

Next ==
  \/ \E m \in MarginChoices : set_margins(m)
  \/ \E ps \in Pagesizes \cup {NoPagesize} : set_pagesize(ps)
  \/ \E order \in OrderValues, invert \in BOOLEAN :
       generate_numbers(order, invert)
  \/ \E order \in OrderValues, cropflag \in BOOLEAN, invert \in BOOLEAN :
       generate(order, cropflag, invert)

Spec == Init /\ [][Next]_vars

(* The grid computation alone, over more ticket sizes and margins.         *)
NextGrid ==
  \/ \E m \in GridMarginChoices : set_margins(m)
  \/ \E ps \in Pagesizes \cup {NoPagesize} : set_pagesize(ps)

SpecGrid == InitGrid /\ [][NextGrid]_vars

(* generate_numbers alone, on a layout that holds no pages yet.            *)
NextFresh ==
  \/ \E m \in MarginChoices : set_margins(m)
  \/ \E ps \in Pagesizes \cup {NoPagesize} : set_pagesize(ps)
  \/ \E order \in OrderValues, invert \in BOOLEAN :
       numbers = << >> /\ generate_numbers(order, invert)

SpecFresh == Init /\ [][NextFresh]_vars

(* generate alone, with the deterministic policies, on layouts built with  *)
(* label lists of every length up to MaxLabels.                            *)
InitLabels ==
  \E sz \in TicketSizes, ps \in Pagesizes, crop \in CropmarkChoices,
     m \in MarginChoices, n \in 0..MaxTickets, off \in 0..MaxOffset,
     k \in 0..MaxLabels :
    Construct(sz, ps, crop, m, n, off, LabelList(k))

NextLabels ==
  \E order \in { STACKORDER, SEQUENTIALORDER }, cropflag \in BOOLEAN,
     invert \in BOOLEAN :
    generate(order, cropflag, invert)

SpecLabels == InitLabels /\ [][NextLabels]_vars

(* ======================================================================= *)
(*                         Properties                                      *)
(* ======================================================================= *)
Policies == { STACKORDER, SEQUENTIALORDER, RANDOMORDER }

(* the latest call was generate_numbers, alone or as line 534 of generate  *)
IsRun == call.name \in { "generate_numbers", "generate" }
(* the latest call computed the grid                                       *)
IsGridCall == call.name \in { "__init__", "set_margins", "set_pagesize" }
(* the attributes of the grid are those of one completed computation       *)
GridComputed == alive /\ pagesize # NoPagesize /\ tickets_per_page # 0

RECURSIVE Flatten(_)
Flatten(pages) ==
  IF pages = << >> THEN << >> ELSE Head(pages) \o Flatten(Tail(pages))

Occurrences(seq, v) == Cardinality({ i \in DOMAIN seq : seq[i] = v })

Min(a, b) == IF a < b THEN a ELSE b

(* ------------------------------- C1 ------------------------------------ *)
(* C1: on a layout that holds no pages yet (newly constructed), with       *)
(* tickets_per_page >= 1 and one of the three policies, with or without    *)
(* invert, generate_numbers raises nothing and leaves an assignment of     *)
(* exactly numtickets identifiers in which every identifier of             *)
(* numoffset .. numoffset + numtickets - 1 occurs exactly once.            *)
C1_AssignmentIsPermutation ==
  (IsRun /\ call.numbers = << >> /\ tickets_per_page >= 1
         /\ call.order \in Policies)
    => /\ err = "none"
       /\ Len(Flatten(numbers)) = numtickets
       /\ \A id \in numoffset .. (numoffset + numtickets - 1) :
            Occurrences(Flatten(numbers), id) = 1

C1_Witness ==
  /\ call.name = "generate_numbers" /\ call.numbers = << >>
  /\ call.order = RANDOMORDER /\ call.invert
  /\ numtickets = 3 /\ numoffset = 1 /\ tickets_per_page = 2
  /\ err = "none"
  /\ Len(numbers) = 2 /\ Len(numbers[1]) = 1 /\ Len(numbers[2]) = 2

(* ------------------------------- C2 ------------------------------------ *)
(* The identifiers the Sequential policy assigns to page p (Python index). *)
SequentialPage(p) ==
  [i \in 1 .. (Min((p + 1) * tickets_per_page, numtickets) - p * tickets_per_page)
     |-> numoffset + p * tickets_per_page + i - 1]

(* C2: after generate_numbers with the Sequential policy (pages not        *)
(* inverted) page p of the assignment holds the consecutive identifiers    *)
(* numoffset + p*tickets_per_page .. numoffset +                           *)
(* min((p+1)*tickets_per_page, numtickets) - 1, for every page p of the    *)
(* layout.                                                                 *)
C2_SequentialPages ==
  (IsRun /\ call.order = SEQUENTIALORDER /\ ~call.invert /\ err = "none"
         /\ tickets_per_page >= 1)
    => \A p \in 0 .. (numpages - 1) :
         /\ p < Len(numbers)
         /\ numbers[p + 1] = SequentialPage(p)

(* ------------------------------- C3 ------------------------------------ *)
(* C3: after generate_numbers with the Stack policy (pages not inverted)   *)
(* the identifier numoffset + k is at position k div numpages of page      *)
(* k mod numpages, for every k in 0 .. numtickets - 1.                     *)
C3_StackPlacement ==
  (IsRun /\ call.order = STACKORDER /\ ~call.invert /\ err = "none"
         /\ tickets_per_page >= 1)
    => \A k \in 0 .. (numtickets - 1) :
         LET p == k % numpages
             j == k \div numpages
         IN  /\ p < Len(numbers)
             /\ j < Len(numbers[p + 1])
             /\ numbers[p + 1][j + 1] = numoffset + k

(* ------------------------------- C4 ------------------------------------ *)
(* The assignment the latest call would have left with invert=False.       *)
NotInverted ==
  GenerateNumbers(call.numbers, call.order, FALSE, call.shuffled).numbers

(* C4: the assignment a call with invert=True leaves is the assignment the *)
(* same call with invert=False leaves (same policy, same shuffle) with the *)
(* pages in reverse order: page i of one is page Len-1-i of the other,     *)
(* identifiers and their order inside a page unchanged; reversing it again *)
(* gives the assignment of invert=False.                                   *)
C4_InvertReversesPages ==
  (IsRun /\ call.invert /\ err = "none")
    => /\ Len(numbers) = Len(NotInverted)
       /\ \A i \in 1 .. Len(numbers) :
            numbers[i] = NotInverted[Len(numbers) + 1 - i]
       /\ Reverse(numbers) = NotInverted

C4_Witness ==
  /\ IsRun /\ call.invert /\ err = "none"
  /\ call.order = SEQUENTIALORDER
  /\ Len(numbers) = 2
  /\ numbers[1] = <<numoffset + 2>>
  /\ numbers[2] = <<numoffset, numoffset + 1>>

(* ------------------------------- C5 ------------------------------------ *)
(* the ticket does not fit between the margins the latest call asked for   *)
Degenerate ==
  \/ usable_pagewidth(pagesize, cropmarks, call.minmargins) < ticket.width
  \/ usable_pageheight(pagesize, cropmarks, call.minmargins) < ticket.height

(* C5: whenever the ticket does not fit in the usable area (no column or   *)
(* no row, a negative usable width or height included), the computation of *)
(* the grid by the constructor, set_margins or set_pagesize raises.  Any   *)
(* exception is taken for the failure the claim asks for.                  *)
C5_DegenerateLayoutRejected ==
  (IsGridCall /\ pagesize # NoPagesize /\ Degenerate) => err # "none"

(* ------------------------------- C6 ------------------------------------ *)
(* C6: a generate / generate_numbers call with an order that is none of    *)
(* the three policies raises, builds no page and draws nothing.            *)
C6_UnknownPolicyRejected ==
  (IsRun /\ call.order \notin Policies)
    => /\ err # "none"
       /\ numbers = call.numbers
       /\ canvas = << >>

(* ------------------------------- C7 ------------------------------------ *)
(* C7: a grid computed without error has colcount = floor(usable width /   *)
(* ticket width), rowcount = floor(usable height / ticket height),         *)
(* tickets_per_page = colcount * rowcount and numpages =                   *)
(* ceil(numtickets / tickets_per_page), and computing it again from the    *)
(* stored page size and requested margins gives the same grid.             *)
C7_GridIsFloor ==
  (IsGridCall /\ GridComputed /\ err = "none")
    => LET uw == usable_pagewidth(pagesize, cropmarks, minmargins)
           uh == usable_pageheight(pagesize, cropmarks, minmargins)
           g == ComputeGrid(pagesize, cropmarks, ticket, numtickets, minmargins)
       IN  /\ colcount = uw \div ticket.width
           /\ rowcount = uh \div ticket.height
           /\ tickets_per_page = colcount * rowcount
           /\ tickets_per_page > 0
                => /\ numpages * tickets_per_page >= numtickets
                   /\ (numpages - 1) * tickets_per_page < numtickets
           /\ tickets_per_page < 0
                => /\ numpages * tickets_per_page <= numtickets
                   /\ (numpages - 1) * tickets_per_page > numtickets
           /\ ~g.raised
           /\ <<g.colcount, g.rowcount, g.tickets_per_page, g.numpages,
                g.realmargins>>
                = <<colcount, rowcount, tickets_per_page, numpages, realmargins>>

(* ------------------------------- C8 ------------------------------------ *)
(* C8: in a grid computed without error the real margins are               *)
(* left = requested left + crop mark length, top = requested top + crop    *)
(* mark length, right = page width - (left + colcount * ticket width),     *)
(* bottom = page height - (top + rowcount * ticket height), and each is at *)
(* least the requested margin.                                             *)
C8_TrueMarginsCoverRequested ==
  (IsGridCall /\ GridComputed /\ err = "none")
    => /\ realmargins.left = minmargins.left + cropmarks[1]
       /\ realmargins.top = minmargins.top + cropmarks[1]
       /\ realmargins.right
            = pagesize[1] - (realmargins.left + colcount * ticket.width)
       /\ realmargins.bottom
            = pagesize[2] - (realmargins.top + rowcount * ticket.height)
       /\ realmargins.left >= minmargins.left
       /\ realmargins.top >= minmargins.top
       /\ realmargins.right >= minmargins.right
       /\ realmargins.bottom >= minmargins.bottom

(* ------------------------------- C9 ------------------------------------ *)
(* the unit squares of the rectangle [x0, x1) x [y0, y1)                   *)
Rect(x0, y0, x1, y1) == (x0 .. (x1 - 1)) \X (y0 .. (y1 - 1))

(* the ticket-sized rectangle at the origin get_cell gives                 *)
Cell(col, row) ==
  LET o == get_cell(col, row)
  IN  Rect(o[1], o[2], o[1] + ticket.width, o[2] + ticket.height)

GridCells == (0 .. (colcount - 1)) \X (0 .. (rowcount - 1))

(* C9: in a computed grid, get_cell gives for every column and row of the  *)
(* grid x = real left margin + column * ticket width and y = page height - *)
(* real top margin - (row + 1) * ticket height; the ticket-sized           *)
(* rectangles at these origins are pairwise disjoint and their union is    *)
(* the rectangle from (real left, real bottom) to (page width - real       *)
(* right, page height - real top); the origin of the bottom row is at the  *)
(* real bottom margin.                                                     *)
C9_CellsTileUsableRegion ==
  GridComputed
    => /\ \A c \in GridCells :
            get_cell(c[1], c[2])
              = << realmargins.left + c[1] * ticket.width,
                   pagesize[2] - realmargins.top - (c[2] + 1) * ticket.height >>
       /\ \A c, d \in GridCells :
            c # d => Cell(c[1], c[2]) \cap Cell(d[1], d[2]) = {}
       /\ UNION { Cell(c[1], c[2]) : c \in GridCells }
            = Rect(realmargins.left, realmargins.bottom,
                   pagesize[1] - realmargins.right,
                   pagesize[2] - realmargins.top)
       /\ \A c \in GridCells :
            c[2] = rowcount - 1 => get_cell(c[1], c[2])[2] = realmargins.bottom

C9_Witness ==
  /\ GridComputed /\ call.name = "set_margins" /\ err = "none"
  /\ colcount = 2 /\ rowcount = 2
  /\ realmargins.bottom > 0 /\ realmargins.left > 0

(* ------------------------------- C10 ----------------------------------- *)
(* what a paint event shows of the number assignment: no label             *)
Unlabelled(e) ==
  IF e.kind = "paint" THEN [kind |-> "paint", number |-> e.number, x |-> e.x, y |-> e.y]
  ELSE e

(* the events of one page: crop marks if enabled, the identifiers in order *)
(* at the cells (i mod colcount, i div colcount), one page advance         *)
PageEvents(page, cropflag) ==
  (IF cropflag THEN <<CropEvent>> ELSE << >>)
  \o [i \in 1 .. Len(page) |->
        LET o == get_cell((i - 1) % colcount, (i - 1) \div colcount)
        IN  [kind |-> "paint", number |-> page[i], x |-> o[1], y |-> o[2]]]
  \o <<PageEvent>>

RECURSIVE RunEvents(_, _)
RunEvents(pages, cropflag) ==
  IF pages = << >> THEN << >>
  ELSE PageEvents(Head(pages), cropflag) \o RunEvents(Tail(pages), cropflag)

CountKind(cv, kind) == Cardinality({ i \in DOMAIN cv : cv[i].kind = kind })

(* C10: a generate run that raises nothing has drawn, page by page in the  *)
(* order of the assignment, the crop marks (if enabled), every identifier  *)
(* of the page at the cell (i mod colcount, i div colcount) of its         *)
(* position i, and one page advance; as many tickets are painted as the    *)
(* assignment holds identifiers and numpages page advances are signalled.  *)
C10_GenerateEmitsAssignment ==
  (call.name = "generate" /\ err = "none" /\ colcount >= 1)
    => /\ [i \in DOMAIN canvas |-> Unlabelled(canvas[i])]
            = RunEvents(numbers, call.cropmarks)
       /\ CountKind(canvas, "paint") = Len(Flatten(numbers))
       /\ CountKind(canvas, "showPage") = numpages

(* ------------- the same on a layout that holds no pages yet ------------ *)
(* C2, C3 and C10 for the first generate_numbers / generate call of a      *)
(* layout with a grid of at least one column and one row.                  *)
FirstRun == IsRun /\ call.numbers = << >> /\ colcount >= 1 /\ rowcount >= 1

FreshSequentialPages ==
  (FirstRun /\ call.order = SEQUENTIALORDER /\ ~call.invert)
    => /\ err \in { "none", "TypeError" }
       /\ Len(numbers) = numpages
       /\ \A p \in 0 .. (numpages - 1) : numbers[p + 1] = SequentialPage(p)

FreshStackPlacement ==
  (FirstRun /\ call.order = STACKORDER /\ ~call.invert)
    => /\ err \in { "none", "TypeError" }
       /\ Len(numbers) = numpages
       /\ Len(Flatten(numbers)) = numtickets
       /\ \A k \in 0 .. (numtickets - 1) :
            numbers[(k % numpages) + 1][(k \div numpages) + 1] = numoffset + k

FreshGenerateEmitsAssignment ==
  (FirstRun /\ call.name = "generate" /\ err = "none")
    => /\ [i \in DOMAIN canvas |-> Unlabelled(canvas[i])]
            = RunEvents(numbers, call.cropmarks)
       /\ CountKind(canvas, "paint") = Len(Flatten(numbers))
       /\ CountKind(canvas, "showPage") = numpages

(* ------------------------------- C11 ----------------------------------- *)
(* what the latest run's call yields on a layout that holds no pages, with *)
(* the same grid, the same arguments and the same shuffle                  *)
FreshAssignment ==
  GenerateNumbers(<< >>, call.order, call.invert, call.shuffled)

(* C11: after any number of earlier runs on the same layout, a run with    *)
(* one of the three policies leaves the assignment the same call yields on *)
(* a newly constructed layout, nothing of an earlier run retained; where   *)
(* that call raises nothing the assignment has exactly numpages pages and  *)
(* holds every identifier of numoffset .. numoffset + numtickets - 1       *)
(* exactly once and nothing else.                                          *)
C11_AssignmentComputedFresh ==
  (IsRun /\ call.order \in Policies /\ tickets_per_page >= 1)
    => /\ numbers = FreshAssignment.numbers
       /\ FreshAssignment.err = "none"
            => /\ Len(numbers) = numpages
               /\ Len(Flatten(numbers)) = numtickets
               /\ \A id \in numoffset .. (numoffset + numtickets - 1) :
                    Occurrences(Flatten(numbers), id) = 1

(* The same for the first run of a layout: there C11 holds.                *)
FirstRunComputedFresh ==
  (IsRun /\ call.numbers = << >> /\ call.order \in Policies
         /\ tickets_per_page >= 1)
    => /\ numbers = FreshAssignment.numbers
       /\ FreshAssignment.err = "none"
       /\ Len(numbers) = numpages
       /\ Len(Flatten(numbers)) = numtickets

(* ------------------------------- C12 ----------------------------------- *)
(* the paint events of the canvas, in paint order                          *)
RECURSIVE Paints(_)
Paints(cv) ==
  IF cv = << >> THEN << >>
  ELSE IF Head(cv).kind = "paint" THEN <<Head(cv)>> \o Paints(Tail(cv))
  ELSE Paints(Tail(cv))

(* C12: in a generate run that found a list of L labels, the i-th painted  *)
(* ticket (0-indexed, in paint order across pages) carries the label at    *)
(* Python index L-1-i for i < L and the empty string for i >= L; the       *)
(* labels handed out are gone from the end of the list; running out of     *)
(* labels raises nothing: a run whose numbering raised nothing, on a       *)
(* layout with a page size, paints every identifier of the assignment.     *)
C12_LabelsLastInFirstOut ==
  call.name = "generate"
    => LET L == Len(call.labels)
           painted == Paints(canvas)
       IN  /\ \A i \in 0 .. (Len(painted) - 1) :
                painted[i + 1].label
                  = IF i < L THEN call.labels[L - i] ELSE 0
           /\ err = "none"
                => /\ Len(painted) = Len(Flatten(numbers))
                   /\ labels = SubSeq(call.labels, 1, L - Min(L, Len(painted)))
           /\ (pagesize # NoPagesize
                 /\ GenerateNumbers(call.numbers, call.order, call.invert,
                                     call.shuffled).err = "none")
                => err = "none"

(* a run that painted more tickets than it had labels, over two pages      *)
C12_Witness ==
  /\ call.name = "generate" /\ err = "none"
  /\ Len(call.labels) = 2 /\ Len(Paints(canvas)) = 3
  /\ numpages = 2
  /\ Paints(canvas)[1].label = 2 /\ Paints(canvas)[2].label = 1
  /\ Paints(canvas)[3].label = 0
  /\ labels = << >>

(* ------------------------------- C13 ----------------------------------- *)
(* self.labels is the list object the caller supplied (line 383): what     *)
(* the caller's list holds is what labels holds.                           *)
(* C13: a generate call leaves the page size, the crop marks, the          *)
(* requested margins, the ticket count, the numbering offset and the       *)
(* caller's label list as it found them: the same labels in the same       *)
(* order.                                                                  *)
C13_GenerateLeavesConfigUnchanged ==
  [][ (call'.name = "generate" /\ runs' = runs + 1)
        => UNCHANGED <<pagesize, cropmarks, minmargins, numtickets,
                       numoffset, labels>> ]_vars

(* C13, for all but the label list: there it holds.                        *)
GenerateLeavesGeometryUnchanged ==
  [][ (call'.name = "generate" /\ runs' = runs + 1)
        => UNCHANGED <<pagesize, cropmarks, minmargins, numtickets,
                       numoffset, geometry>> ]_vars

(* ------------------------------- C14 ----------------------------------- *)
(* the origins of the cells of the grid                                    *)
CellOrigins ==
  { get_cell(col, row) : col \in 0 .. (colcount - 1), row \in 0 .. (rowcount - 1) }

(* every page holds between 1 and tickets_per_page identifiers             *)
PagesWithinGrid ==
  \A p \in DOMAIN numbers :
    Len(numbers[p]) >= 1 /\ Len(numbers[p]) <= tickets_per_page

(* every ticket was painted at a cell of the grid, none below the real     *)
(* bottom margin                                                           *)
PaintedWithinGrid ==
  \A i \in DOMAIN canvas :
    canvas[i].kind = "paint"
      => /\ <<canvas[i].x, canvas[i].y>> \in CellOrigins
         /\ canvas[i].y >= realmargins.bottom

(* every page advance follows a painted ticket                             *)
NoEmptyPageEmitted ==
  \A i \in DOMAIN canvas :
    canvas[i].kind = "showPage" => (i > 1 /\ canvas[i - 1].kind = "paint")

(* the latest call was generate with one of the three policies, it raised  *)
(* nothing, and the grid has at least one column and one row               *)
ValidGenerate ==
  /\ call.name = "generate" /\ call.order \in Policies /\ err = "none"
  /\ colcount >= 1 /\ rowcount >= 1

(* C14: after any sequence of generate calls on a layout with a grid of at *)
(* least one column and one row, a generate run with one of the three      *)
(* policies leaves every page of the assignment with at least 1 and at     *)
(* most tickets_per_page identifiers, has painted every ticket at a cell   *)
(* (col, row) with 0 <= col < colcount and 0 <= row < rowcount, none below *)
(* the real bottom margin, and has emitted no empty page.                  *)
C14_PagesWithinGrid ==
  ValidGenerate
    => PagesWithinGrid /\ PaintedWithinGrid /\ NoEmptyPageEmitted

(* The same for the first run of a layout: there C14 holds.                *)
FirstRunPagesWithinGrid ==
  (ValidGenerate /\ call.numbers = << >>)
    => PagesWithinGrid /\ PaintedWithinGrid /\ NoEmptyPageEmitted
=============================================================================
